---- MODULE Spec2Model ----
(***************************************************************************)
(* xnatc: the BIDS conversion of src/xnatc/bids.py and the listing         *)
(* traversal of src/xnatc/main.py.                                         *)
(*                                                                         *)
(* Python strings that the code searches, lower-cases or matches against   *)
(* a regular expression (file labels, scan descriptions, image types) are  *)
(* tuples of one-character strings.  Strings that the code only builds and *)
(* compares (destination paths) are TLA+ strings built with \o.            *)
(***************************************************************************)
EXTENDS Integers, Sequences, FiniteSets, TLC

VARIABLES
    os_name,      \* platform of the run: decides os.rename onto an existing file
    pc,           \* "idle": between download_bids calls; "rename": in the loop of
                  \* bids.py:210; "raised": an exception left download_bids
    remote,       \* acquisitions of the session not downloaded yet (their stems)
    scan_files,   \* r.files() of the scan being converted (file labels)
    imgfiles,     \* the part of the set imgfiles the loop of bids.py:210 has not visited
    staged,       \* files directly in outdir (file labels)
    placed,       \* files in outdir/<folder>/: destination path -> label of the file
                  \* downloaded under that label (the content)
    prior,        \* placed as it was when the current download_bids call began
    participants, \* participants.tsv: [exists, text], text the characters of the file
    passed,       \* the subject IDs given to update_ptlist so far, each once, in
                  \* the order they were first given
    bidsfiles,    \* which of dataset_description.json and README exist in bidsdir
    probe,        \* last (fname, json_data, result) put through the matcher loop
    listing       \* the traversal of do_list: [pc, action, args, todo, out]

bids_vars == <<os_name, pc, remote, scan_files, imgfiles, staged, placed, prior,
               participants, passed, bidsfiles, probe>>

vars == <<bids_vars, listing>>

----------------------------------------------------------------------------
(* Bounds *)

\* acquisitions of one session that are downloaded in a behaviour
MaxAcqs == 4

\* largest EchoNumber a sidecar of the classifier inputs holds
MaxEchoNumber == 2

\* subjects of the project whose scans are downloaded into one BIDS directory
MaxSubjects == 4

----------------------------------------------------------------------------
(* Python str operations *)

None == <<>>

Some(v) == <<v>>

UpperChars == <<"A","B","C","D","E","F","G","H","I","J","K","L","M",
                "N","O","P","Q","R","S","T","U","V","W","X","Y","Z">>

LowerChars == <<"a","b","c","d","e","f","g","h","i","j","k","l","m",
                "n","o","p","q","r","s","t","u","v","w","x","y","z">>

Digits == <<"0","1","2","3","4","5","6","7","8","9">>

\* str.lower() / str.upper(), one character
lower_char(c) ==
    IF \E i \in 1..26 : UpperChars[i] = c
    THEN LowerChars[CHOOSE i \in 1..26 : UpperChars[i] = c]
    ELSE c

upper_char(c) ==
    IF \E i \in 1..26 : LowerChars[i] = c
    THEN UpperChars[CHOOSE i \in 1..26 : LowerChars[i] = c]
    ELSE c

lower(s) == [i \in 1..Len(s) |-> lower_char(s[i])]

upper(s) == [i \in 1..Len(s) |-> upper_char(s[i])]

\* s[i:i+len(t)] == t
At(s, i, t) == i >= 1 /\ i + Len(t) - 1 <= Len(s) /\ SubSeq(s, i, i + Len(t) - 1) = t

\* t in s
contains(s, t) == \E i \in 1..(Len(s) + 1) : At(s, i, t)

\* s.endswith(t)
endswith(s, t) == At(s, Len(s) - Len(t) + 1, t)

\* s.replace(old, ""): every non-overlapping occurrence, left to right
RECURSIVE replace(_, _)
replace(s, old) ==
    IF Len(s) = 0 THEN s
    ELSE IF At(s, 1, old) THEN replace(SubSeq(s, Len(old) + 1, Len(s)), old)
    ELSE <<s[1]>> \o replace(Tail(s), old)

\* the TLA+ string of a character tuple
RECURSIVE Str(_)
Str(s) == IF Len(s) = 0 THEN "" ELSE s[1] \o Str(Tail(s))

IsDigit(c) == \E d \in 1..10 : Digits[d] = c

DigitValue(c) == (CHOOSE d \in 1..10 : Digits[d] = c) - 1

\* int(digits)
RECURSIVE int(_)
int(ds) == IF Len(ds) = 0 THEN 0 ELSE 10 * int(SubSeq(ds, 1, Len(ds) - 1)) + DigitValue(ds[Len(ds)])

\* last index of the longest run of digits that starts at i (i - 1 when s[i] is no digit)
RECURSIVE DigitRunEnd(_, _)
DigitRunEnd(s, i) ==
    IF i <= Len(s) /\ IsDigit(s[i]) THEN DigitRunEnd(s, i + 1) ELSE i - 1

Max(S) == CHOOSE x \in S : \A y \in S : y <= x

----------------------------------------------------------------------------
(* Sidecar metadata: the value json.load returns.  type is "object" for a   *)
(* JSON object, "array" for a document whose top level is not an object,    *)
(* "invalid" for a file json.load raises on.  A key of an object is None    *)
(* when the object lacks it, Some(value) otherwise.                         *)

EmptyDict == [type |-> "object", SeriesDescription |-> None, ImageType |-> None,
              EchoNumber |-> None]

\* json_data.get(key, default)
get(json_data, key, default) ==
    IF json_data[key] = None THEN default ELSE json_data[key][1]

\* json_data.get / "key" in json_data of a value that is no dict raises
not_a_dict(json_data) == json_data.type # "object"

----------------------------------------------------------------------------
(* get_echo_num, get_coil_num *)

\* re.compile(".*" + tok + "(\d+)[_$]").match(s): the character class [_$] is a
\* literal underscore or dollar sign after the digits; the greedy .* takes the
\* last place where the rest matches.  Some(int(group 1)) or None.
echo_group(tok, s, i) ==
    SubSeq(s, i + Len(tok), DigitRunEnd(s, i + Len(tok)))

echo_starts(tok, s) ==
    {i \in 1..Len(s) : /\ At(s, i, tok)
                       /\ Len(echo_group(tok, s, i)) >= 1
                       /\ i + Len(tok) + Len(echo_group(tok, s, i)) <= Len(s)
                       /\ s[i + Len(tok) + Len(echo_group(tok, s, i))] \in {"_", "$"}}

echo_re(tok, s) ==
    IF echo_starts(tok, s) = {} THEN None
    ELSE Some(int(echo_group(tok, s, Max(echo_starts(tok, s)))))

echo_res == << <<"_","e","c","h","o">>, <<"_","e">> >>

get_echo_num(fname, json_data) ==
    LET m1 == echo_re(echo_res[1], lower(fname))
        m2 == echo_re(echo_res[2], lower(fname))
    IN  IF json_data.EchoNumber # None THEN Some(json_data.EchoNumber[1])
        ELSE IF m1 # None THEN m1
        ELSE m2

\* re.compile(".*coil(\d+).*").match(fname.lower())
get_coil_num(fname, json_data) ==
    LET s == lower(fname)
        tok == <<"c","o","i","l">>
        starts == {i \in 1..Len(s) : At(s, i, tok) /\ DigitRunEnd(s, i + 4) >= i + 4}
    IN  IF starts = {} THEN None
        ELSE Some(int(SubSeq(s, Max(starts) + 4, DigitRunEnd(s, Max(starts) + 4))))

\* "if echonum:" - None and 0 are false
truthy(opt) == opt # None /\ opt[1] # 0

----------------------------------------------------------------------------
(* Matchers.  attrs is the dict in insertion order: a sequence of           *)
(* <<key, word, number>>, word = "" for a numeric value.  A matcher returns *)
(* Some([folder, suffix, attrs, md]) or None.                               *)

Word(k, w) == <<k, w, 0>>

Num(k, n) == <<k, "", n>>

has_key(attrs, k) == \E i \in 1..Len(attrs) : attrs[i][1] = k

\* attrs[k] = v: a new key is appended, an old one keeps its place
set_attr(attrs, kv) ==
    IF has_key(attrs, kv[1])
    THEN [i \in 1..Len(attrs) |-> IF attrs[i][1] = kv[1] THEN kv ELSE attrs[i]]
    ELSE Append(attrs, kv)

attr_num(attrs, k) == attrs[CHOOSE i \in 1..Len(attrs) : attrs[i][1] = k][3]

desc_of(json_data) == lower(get(json_data, "SeriesDescription", <<>>))

tok_t1 == <<"t","1">>
tok_t2star == <<"t","2","s","t","a","r">>
tok_t2 == <<"t","2">>
tok_fmri == <<"f","m","r","i">>
tok_sbref == <<"s","b","r","e","f">>
tok_resting == <<"r","e","s","t","i","n","g">>
tok_task == <<"t","a","s","k">>
tok_diff == <<"d","i","f","f">>
tok_swi == <<"s","w","i">>

\* the body of match_anat up to its last statement
anat_result(fname, json_data) ==
    LET desc == desc_of(json_data)
        suffix == IF contains(desc, tok_t1) THEN "T1w"
                  ELSE IF contains(desc, tok_t2star) THEN "T2starw"
                  ELSE IF contains(desc, tok_t2) THEN "T2w"
                  ELSE ""
        img_types == {upper(t) : t \in
                        {get(json_data, "ImageType", <<>>)[i] :
                            i \in 1..Len(get(json_data, "ImageType", <<>>))}}
        a1 == IF <<"N","O","R","M">> \in img_types THEN <<Word("acq", "norm")>> ELSE <<>>
        a2 == IF <<"P","H","A","S","E">> \in img_types
              THEN set_attr(a1, Word("part", "phase")) ELSE a1
        a3 == IF endswith(lower(fname), <<"_","p","h">>)
              THEN set_attr(a2, Word("part", "phase")) ELSE a2
        echonum == get_echo_num(fname, json_data)
        a4 == IF truthy(echonum) THEN set_attr(a3, Num("echo", echonum[1])) ELSE a3
    IN  [folder |-> "anat", suffix |-> suffix,
         attrs |-> IF suffix # "" THEN a4 ELSE <<>>, md |-> <<>>]

\* match_anat has no return statement: the call evaluates to None whatever it computed
match_anat(fname, json_data) ==
    LET computed == anat_result(fname, json_data)
    IN  None

match_func(fname, json_data) ==
    LET desc == desc_of(json_data)
        suffix == IF contains(desc, tok_sbref) THEN "sbref" ELSE "bold"
        attrs == IF contains(desc, tok_resting) THEN <<Word("task", "rest")>>
                 ELSE IF contains(desc, tok_task) THEN <<Word("task", "task")>>
                 ELSE <<>>
        md == IF ~contains(desc, tok_resting) /\ contains(desc, tok_task)
              THEN <<<<"TaskName", "task">>>> ELSE <<>>
    IN  IF contains(desc, tok_fmri)
        THEN Some([folder |-> "func", suffix |-> suffix, attrs |-> attrs, md |-> md])
        ELSE None

match_dwi(fname, json_data) ==
    LET desc == desc_of(json_data)
        suffix == IF contains(desc, tok_sbref) THEN "sbref" ELSE "dwi"
    IN  IF contains(desc, tok_diff)
        THEN Some([folder |-> "dwi", suffix |-> suffix, attrs |-> <<>>, md |-> <<>>])
        ELSE None

match_swi(fname, json_data) ==
    LET desc == desc_of(json_data)
        suffix == IF contains(desc, tok_sbref) THEN "sbref" ELSE "swi"
        echonum == get_echo_num(fname, json_data)
        a1 == IF truthy(echonum) THEN <<Num("echo", echonum[1])>> ELSE <<>>
        coilnum == get_coil_num(fname, json_data)
        a2 == IF truthy(coilnum) THEN set_attr(a1, Num("coil", coilnum[1])) ELSE a1
    IN  IF contains(desc, tok_swi)
        THEN Some([folder |-> "swi", suffix |-> suffix, attrs |-> a2, md |-> <<>>])
        ELSE None

DEFAULT_MATCHER == <<"match_anat", "match_func", "match_dwi", "match_swi">>

\* matcher(imgname, json_data) of bids.py:224
call_matcher(matcher, fname, json_data) ==
    CASE matcher = "match_anat" -> match_anat(fname, json_data)
      [] matcher = "match_func" -> match_func(fname, json_data)
      [] matcher = "match_dwi" -> match_dwi(fname, json_data)
      [] matcher = "match_swi" -> match_swi(fname, json_data)

\* the loop "for matcher in bids_mapper" up to its break: the first result that is
\* not None, or None when every matcher returned None
RECURSIVE first_match(_, _, _)
first_match(i, fname, json_data) ==
    LET bids_match == call_matcher(DEFAULT_MATCHER[i], fname, json_data)
    IN  IF i > Len(DEFAULT_MATCHER) THEN None
        ELSE IF bids_match # None THEN bids_match
        ELSE first_match(i + 1, fname, json_data)

\* what the matcher loop does with one acquisition: "raise" when the first matcher's
\* json_data.get raises, else "match" with bids_match, else "unmatched"
classify(fname, json_data) ==
    LET bids_match == first_match(1, fname, json_data)
    IN  IF not_a_dict(json_data) THEN [outcome |-> "raise", bids_match |-> None]
        ELSE [outcome |-> IF bids_match # None THEN "match" ELSE "unmatched",
              bids_match |-> bids_match]

----------------------------------------------------------------------------
(* Files *)

ext_nii_gz == <<".","n","i","i",".","g","z">>
ext_nii == <<".","n","i","i">>
ext_json == <<".","j","s","o","n">>
ext_bval == <<".","b","v","a","l">>
ext_bvec == <<".","b","v","e","c">>

EXTS == <<ext_nii_gz, ext_nii, ext_json, ext_bval, ext_bvec>>

\* subj.label() of the session converted
subj_label == <<"S","_","0","1">>

\* bids.py:180: "sub-" + subj.label().replace("_", "").replace("-", "")
bids_subject_of(label) ==
    <<"s","u","b","-">> \o replace(replace(label, <<"_">>), <<"-">>)

\* the session converted: the labels of its subject and experiment without "_" and "-"
bids_subject == Str(bids_subject_of(subj_label))

bids_session == "ses-E01"

\* "%s-%s" % (k, v)
attr_token(kv) == kv[1] \o "-" \o (IF kv[2] # "" THEN kv[2] ELSE ToString(kv[3]))

\* "_".join(["%s-%s" % (k, v) for k, v in attrs.items()] + [suffix])
RECURSIVE bids_fname(_, _)
bids_fname(attrs, suffix) ==
    IF Len(attrs) = 0 THEN suffix
    ELSE attr_token(attrs[1]) \o "_" \o bids_fname(Tail(attrs), suffix)

\* os.path.join(outdir, folder, "%s_%s_%s%s" % (bids_subject, bids_session, bids_fname, ext)),
\* relative to outdir
dest_fname(folder, attrs, suffix, ext) ==
    folder \o "/" \o bids_subject \o "_" \o bids_session \o "_"
           \o bids_fname(attrs, suffix) \o Str(ext)

\* The acquisitions the session holds on the server: the stem of the file labels,
\* the extensions downloaded, and what json.load gives for the sidecar.
Object(desc) == [type |-> "object", SeriesDescription |-> Some(desc),
                 ImageType |-> None, EchoNumber |-> None]

Catalogue ==
    { [stem |-> <<"a">>, exts |-> {ext_nii_gz, ext_json},
       json |-> Object(<<"f","M","R","I">>)],
      [stem |-> <<"b">>, exts |-> {ext_nii, ext_json},
       json |-> Object(<<"f","m","r","i">>)],
      [stem |-> <<"c">>, exts |-> {ext_nii_gz, ext_json, ext_bval, ext_bvec},
       json |-> Object(<<"F","M","R","I">>)],
      [stem |-> <<"d">>, exts |-> {ext_json},
       json |-> Object(<<"f","m","r","i">>)],
      [stem |-> <<"l","o","c">>, exts |-> {ext_nii_gz, ext_json},
       json |-> Object(<<"l","o","c","a","l","i","z","e","r">>)],
      [stem |-> <<"n">>, exts |-> {ext_nii_gz},
       json |-> EmptyDict],
      [stem |-> <<"k">>, exts |-> {ext_nii_gz, ext_json},
       json |-> [EmptyDict EXCEPT !.ImageType = Some(<<<<"N","O","R","M">>>>)]],
      [stem |-> <<"x">>, exts |-> {ext_nii_gz, ext_json},
       json |-> [EmptyDict EXCEPT !.type = "invalid"]],
      [stem |-> <<"y">>, exts |-> {ext_nii_gz, ext_json},
       json |-> [EmptyDict EXCEPT !.type = "array"]] }

Stems == {a.stem : a \in Catalogue}

\* f.label() of the files of a set of acquisitions
labels(acqs) == UNION {{a.stem \o e : e \in a.exts} : a \in acqs}

\* r.files() of a scan that holds the acquisitions with the stems in stems
files_of(stems) == labels({a \in Catalogue : a.stem \in stems})

\* what json.load returns for (or how it fails on) the sidecar file downloaded as label
sidecar(label) == (CHOOSE a \in Catalogue : a.stem \o ext_json = label).json

\* bids.py:203-205: the label with every extension of EXTS replaced by ""
RECURSIVE strip_exts(_, _)
strip_exts(name, i) ==
    IF i > Len(EXTS) THEN name ELSE strip_exts(replace(name, EXTS[i]), i + 1)

\* bids.py:211-221: the sidecar as the matchers get it
load_json(files, imgname) ==
    IF (imgname \o ext_json) \notin files THEN EmptyDict
    ELSE IF sidecar(imgname \o ext_json).type = "invalid" THEN EmptyDict
    ELSE sidecar(imgname \o ext_json)

\* A directory state: the files in outdir, the files in its folders, and whether an
\* exception has been raised (after which nothing more is changed).
exists(fs, dest) == dest \in DOMAIN fs.placed

\* os.rename(src, dst): on POSIX an existing dst is replaced silently, on Windows
\* FileExistsError is raised.  Of a file already in a folder:
rename_placed(fs, src, dst) ==
    IF fs.raised THEN fs
    ELSE IF exists(fs, dst) /\ os_name = "nt" THEN [fs EXCEPT !.raised = TRUE]
    ELSE [fs EXCEPT !.placed = [p \in (DOMAIN fs.placed \ {src}) \cup {dst} |->
                                    IF p = dst THEN fs.placed[src] ELSE fs.placed[p]]]

\* ... and of a staged file
rename_staged(fs, src, dst) ==
    IF fs.raised THEN fs
    ELSE IF exists(fs, dst) /\ os_name = "nt" THEN [fs EXCEPT !.raised = TRUE]
    ELSE [fs EXCEPT !.staged = fs.staged \ {src},
                    !.placed = [p \in DOMAIN fs.placed \cup {dst} |->
                                    IF p = dst THEN src ELSE fs.placed[p]]]

\* bids.py:231-250, the loop "while not handled_duplicates" (entered for the first
\* extension of EXTS only, since handled_duplicates stays True afterwards): the
\* directory, the attributes and dest_fname as the loop leaves them
RECURSIVE handle_duplicates(_, _, _, _, _)
handle_duplicates(fs, folder, attrs, suffix, ext) ==
    LET dest == dest_fname(folder, attrs, suffix, ext)
        run1 == set_attr(attrs, Num("run", 1))
        renamed == rename_placed(fs, dest, dest_fname(folder, run1, suffix, ext))
    IN  IF fs.raised \/ ~exists(fs, dest)
        THEN [fs |-> fs, attrs |-> attrs, dest_fname |-> dest]
        ELSE IF ~has_key(attrs, "run")
        THEN IF renamed.raised
             THEN [fs |-> renamed, attrs |-> run1, dest_fname |-> dest]
             ELSE handle_duplicates(renamed, folder, set_attr(attrs, Num("run", 2)),
                                    suffix, ext)
        ELSE handle_duplicates(fs, folder,
                               set_attr(attrs, Num("run", attr_num(attrs, "run") + 1)),
                               suffix, ext)

\* bids.py:252-253 for the extensions EXTS[i..]: dest_fname is the variable the
\* while loop assigned last, the same path for every extension
RECURSIVE move_exts(_, _, _, _)
move_exts(fs, imgname, dest, i) ==
    IF i > Len(EXTS) \/ fs.raised THEN fs
    ELSE move_exts(IF (imgname \o EXTS[i]) \in fs.staged
                   THEN rename_staged(fs, imgname \o EXTS[i], dest)
                   ELSE fs,
                   imgname, dest, i + 1)

\* bids.py:226-253: a matched acquisition
place(fs, imgname, m) ==
    LET h == handle_duplicates(fs, m.folder, m.attrs, m.suffix, EXTS[1])
    IN  move_exts(h.fs, imgname, h.dest_fname, 1)

\* remove_unmatched with the loop over EXTS stopping short of the sidecar
remove_unmatched_images_only(fs, imgname) ==
    [fs EXCEPT !.staged = fs.staged \ {imgname \o EXTS[i] : i \in 1..2}]

\* bids.py:256-260: an unmatched acquisition
remove_unmatched(fs, imgname) ==
    [fs EXCEPT !.staged = fs.staged \ {imgname \o EXTS[i] : i \in 1..Len(EXTS)}]

\* one iteration of the loop of bids.py:210
rename_files(fs, imgname, c) ==
    CASE c.outcome = "raise" -> [fs EXCEPT !.raised = TRUE]
      [] c.outcome = "match" -> place(fs, imgname, c.bids_match[1])
      [] c.outcome = "unmatched" -> remove_unmatched(fs, imgname)

----------------------------------------------------------------------------
(* update_ptlist, check_dataset_description *)

participant_id == <<"p","a","r","t","i","c","i","p","a","n","t","_","i","d">>

Whitespace == {" ", "\t", "\n", "\r"}

\* f.readlines(): the text cut after every "\n", the line ends kept
RECURSIVE readlines(_)
readlines(text) ==
    IF Len(text) = 0 THEN <<>>
    ELSE IF \E i \in 1..Len(text) : text[i] = "\n"
    THEN LET n == CHOOSE i \in 1..Len(text) :
                      text[i] = "\n" /\ \A j \in 1..(i - 1) : text[j] # "\n"
         IN  <<SubSeq(text, 1, n)>> \o readlines(SubSeq(text, n + 1, Len(text)))
    ELSE <<text>>

\* str.strip()
RECURSIVE strip(_)
strip(s) ==
    IF Len(s) = 0 THEN s
    ELSE IF s[1] \in Whitespace THEN strip(Tail(s))
    ELSE IF s[Len(s)] \in Whitespace THEN strip(SubSeq(s, 1, Len(s) - 1))
    ELSE s

\* the lines read back as they are, line ends included
read_pts_unstripped(text) == readlines(text)

\* [l.strip() for l in f.readlines()]
read_pts(text) ==
    LET ls == readlines(text) IN [i \in 1..Len(ls) |-> strip(ls[i])]

\* for pt in pts: f.write("%s\n" % pt)
RECURSIVE write_pts(_)
write_pts(pts) ==
    IF Len(pts) = 0 THEN <<>>
    ELSE pts[1] \o <<"\n">> \o write_pts(Tail(pts))

\* bids.py:123-140, bids_subject a character tuple
update_ptlist(file, subject) ==
    LET pts == IF file.exists THEN read_pts(file.text) ELSE <<participant_id>>
    IN  IF \E i \in 2..Len(pts) : pts[i] = subject
        THEN file
        ELSE [exists |-> TRUE, text |-> write_pts(Append(pts, subject))]

\* the IDs given to update_ptlist, each once, in order of first appearance
note_passed(ids, subject) ==
    IF \E i \in 1..Len(ids) : ids[i] = subject THEN ids ELSE Append(ids, subject)

check_dataset_description(files) == files \cup {"dataset_description.json", "README"}

----------------------------------------------------------------------------
(* matches, print_obj, download_obj and the objects of the server *)

skip == <<"s","k","i","p">>

\* one character of a pattern against one character of a name, re.IGNORECASE
same_char(p, c) == lower_char(p) = lower_char(c)

\* re.compile(fnmatch.translate(pat), re.IGNORECASE).match(name), pat made of
\* "*", "?" and characters that stand for themselves
RECURSIVE glob_match(_, _)
glob_match(pat, name) ==
    IF Len(pat) = 0 THEN Len(name) = 0
    ELSE IF pat[1] = "*"
    THEN glob_match(Tail(pat), name)
         \/ (Len(name) > 0 /\ glob_match(pat, Tail(name)))
    ELSE IF pat[1] = "?"
    THEN Len(name) > 0 /\ glob_match(Tail(pat), Tail(name))
    ELSE Len(name) > 0 /\ same_char(pat[1], name[1])
         /\ glob_match(Tail(pat), Tail(name))

\* re.compile(pat, re.IGNORECASE).match(name), pat made of ".", a postfix "*"
\* and characters that stand for themselves: a match of a prefix of name
RECURSIVE re_match(_, _)
re_match(pat, name) ==
    IF Len(pat) = 0 THEN TRUE
    ELSE LET one == Len(name) > 0 /\ name[1] # "\n"
                    /\ (pat[1] = "." \/ same_char(pat[1], name[1]))
         IN  IF Len(pat) >= 2 /\ pat[2] = "*"
             THEN re_match(SubSeq(pat, 3, Len(pat)), name)
                  \/ (one /\ re_match(pat, Tail(name)))
             ELSE one /\ re_match(Tail(pat), Tail(name))

\* main.py:286-308, args.match_files not given: match_ids = [match_id]
matches(obj, match_id, args) ==
    IF match_id = Some(skip) THEN FALSE
    ELSE IF match_id = None \/ match_id = Some(<<>>) THEN TRUE
    ELSE IF args.match_type = "glob"
    THEN glob_match(match_id[1], obj.id) \/ glob_match(match_id[1], obj.label)
    ELSE re_match(match_id[1], obj.id) \/ re_match(match_id[1], obj.label)

\* main.py:236-238: the dict prefixes, key and value
prefixes ==
    << <<<<"p","r","o","j","e","c","t">>, <<>>>>,
       <<<<"s","u","b","j","e","c","t">>, <<" ","-"," ">>>>,
       <<<<"e","x","p","e","r","i","m","e","n","t">>, <<" "," ","-"," ">>>>,
       <<<<"s","c","a","n">>, <<" "," "," ","-"," ">>>>,
       <<<<"a","s","s","e","s","s","o","r">>, <<" "," "," ","-"," ">>>> >>

\* key in prefixes
has_prefix(key) == \E i \in 1..Len(prefixes) : prefixes[i][1] = key

\* main.py:235-239: the line printed, or KeyError
print_obj(obj, obj_type) ==
    LET key == lower(obj_type)
    IN  IF has_prefix(key)
        THEN [raised |-> FALSE,
              line |-> prefixes[CHOOSE i \in 1..Len(prefixes) : prefixes[i][1] = key][2]
                       \o obj_type \o <<":"," ">> \o obj.label]
        ELSE [raised |-> TRUE, line |-> <<>>]

\* main.py:225-233: the files of the object are fetched; nothing in it
\* depends on obj_type
download_obj(obj, obj_type) == [raised |-> FALSE, line |-> <<>>]

\* action(obj, obj_type, args, path)
call_action(action, obj, obj_type) ==
    IF action = "print_obj" THEN print_obj(obj, obj_type) ELSE download_obj(obj, obj_type)

\* an object of the server: what it is, obj.id(), obj.label(), and the objects
\* below it (for an experiment its scans, then its assessors)
Obj(kind, id, label, children) ==
    [kind |-> kind, id |-> id, label |-> label, children |-> children]

\* the server: conn.select.projects() and what the projects hold
Server ==
    << Obj("project", <<"p","1">>, <<"B","r","a","i","n">>,
         << Obj("subject", <<"X","S","1">>, <<"S","_","0","1">>,
              << Obj("experiment", <<"X","E","1">>, <<"E","_","0","1">>,
                   << Obj("scan", <<"1">>, <<"1">>, <<>>),
                      Obj("scan", <<"2">>, <<"2">>, <<>>),
                      Obj("assessor", <<"X","A","1">>, <<"q","c">>, <<>>) >>) >>),
            Obj("subject", <<"X","S","2">>, <<"S","_","0","2">>,
              << Obj("experiment", <<"X","E","2">>, <<"E","_","0","1">>, <<>>) >>) >>),
       Obj("project", <<"p","2">>, <<"S","p","i","n","e">>, <<>>) >>

NoArgs == [project |-> None, subject |-> None, experiment |-> None, scan |-> None,
           assessor |-> None, match_type |-> "glob"]

NoListing == [pc |-> "idle", action |-> "print_obj", args |-> NoArgs,
              todo |-> <<>>, out |-> <<>>]

\* the traversal goes on to the next pending object, or has none left
advance(L) == IF L.todo = <<>> THEN [L EXCEPT !.pc = "done"] ELSE L

\* one pass of the loop body of do_list, do_list_subjects, do_list_experiments,
\* do_list_scans or do_list_assessors on the next pending object
list_step(L, obj_type, match_id) ==
    LET obj == Head(L.todo)
    IN  IF ~matches(obj, match_id, L.args)
        THEN advance([L EXCEPT !.todo = Tail(L.todo)])
        ELSE LET r == call_action(L.action, obj, obj_type)
             IN  IF r.raised
                 THEN [L EXCEPT !.pc = "raised"]
                 ELSE advance([L EXCEPT
                         !.out = Append(@, [kind |-> obj.kind, label |-> obj.label,
                                            obj_type |-> obj_type, line |-> r.line]),
                         !.todo = obj.children \o Tail(L.todo)])

----------------------------------------------------------------------------
(* download_bids *)

ObjTypes == {"project", "subject", "session", "scan", "assessor"}

NoResult == [outcome |-> "none", bids_match |-> None]

NoProbe == [imgname |-> <<>>, json_data |-> EmptyDict, result |-> NoResult,
            echonum |-> None]

Init ==
    /\ os_name \in {"posix", "nt"}
    /\ pc = "idle"
    /\ remote = Stems
    /\ scan_files = {}
    /\ imgfiles = {}
    /\ staged = {}
    /\ placed = <<>>
    /\ prior = <<>>
    /\ participants = [exists |-> FALSE, text |-> <<>>]
    /\ passed = <<>>
    /\ bidsfiles = {}
    /\ probe = NoProbe
    /\ listing = NoListing

\* bids.py:168-170: anything but a scan is left alone
download_bids_other(obj_type) ==
    /\ pc = "idle"
    /\ obj_type # "scan"
    /\ UNCHANGED vars

\* bids.py:172-207: a scan holding the acquisitions acqs is downloaded into outdir
download_bids_fetch(acqs) ==
    /\ pc = "idle"
    /\ acqs \subseteq remote
    /\ Cardinality(Stems \ remote) + Cardinality(acqs) <= MaxAcqs
    /\ remote' = remote \ acqs
    /\ participants' = update_ptlist(participants, bids_subject_of(subj_label))
    /\ passed' = note_passed(passed, bids_subject_of(subj_label))
    /\ bidsfiles' = check_dataset_description(bidsfiles)
    /\ scan_files' = files_of(acqs)
    /\ imgfiles' = {strip_exts(f, 1) : f \in files_of(acqs)}
    /\ staged' = staged \cup files_of(acqs)
    /\ prior' = placed
    /\ pc' = IF acqs = {} THEN "idle" ELSE "rename"
    /\ UNCHANGED <<os_name, placed, probe, listing>>

\* bids.py:210-260: the loop takes the next element of the set imgfiles, in the
\* order the set happens to iterate in
download_bids_rename(imgname) ==
    /\ pc = "rename"
    /\ imgname \in imgfiles
    /\ probe' = [imgname |-> imgname, json_data |-> load_json(staged, imgname),
                 result |-> classify(imgname, load_json(staged, imgname)),
                 echonum |-> None]
    /\ LET fs == rename_files([staged |-> staged, placed |-> placed, raised |-> FALSE],
                              imgname, probe'.result)
       IN  /\ staged' = fs.staged
           /\ placed' = fs.placed
           /\ imgfiles' = imgfiles \ {imgname}
           /\ pc' = IF fs.raised THEN "raised"
                    ELSE IF imgfiles' = {} THEN "idle" ELSE "rename"
    /\ UNCHANGED <<os_name, remote, scan_files, prior, participants, passed, bidsfiles,
                   listing>>

Next ==
    \/ \E t \in ObjTypes : download_bids_other(t)
    \/ \E acqs \in SUBSET remote : download_bids_fetch(acqs)
    \/ \E imgname \in imgfiles : download_bids_rename(imgname)

Spec == Init /\ [][Next]_vars

----------------------------------------------------------------------------
(* The classifier alone: the matcher loop and get_echo_num applied to file   *)
(* names and sidecars drawn from bounded sets, one application a behaviour.  *)

ProbeNames ==
    { <<"s","c","a","n">>,
      <<"s","c","a","n","_","e","2">>,
      <<"S","C","A","N","_","E","2">>,
      <<"s","c","a","n","_","e","c","h","o","2">>,
      <<"s","c","a","n","_","e","2","_","p","h">>,
      <<"s","c","a","n","_","e","c","h","o","1","_","c","o","i","l","3">>,
      <<"s","c","a","n","_","e","1","0","$">> }

ProbeDescs ==
    { <<"3","D"," ","T","1"," ","N","O","R","M"," ","M","P","R","A","G","E">>,
      <<"T","1"," ","f","M","R","I">>,
      <<"t","2","s","t","a","r">>,
      <<"f","m","r","i"," ","T","2">>,
      <<"f","M","R","I"," ","r","e","s","t","i","n","g">>,
      <<"f","m","r","i"," ","t","a","s","k"," ","s","b","r","e","f">>,
      <<"D","I","F","F">>,
      <<"S","W","I">>,
      <<"s","w","i"," ","d","i","f","f">>,
      <<"l","o","c","a","l","i","z","e","r">> }

ProbeImageTypes ==
    { <<<<"N","O","R","M">>>>,
      <<<<"O","R","I","G","I","N","A","L">>, <<"p","h","a","s","e">>>> }

ProbeJson ==
    [type : {"object"},
     SeriesDescription : {None} \cup {Some(d) : d \in ProbeDescs},
     ImageType : {None} \cup {Some(t) : t \in ProbeImageTypes},
     EchoNumber : {None} \cup {Some(n) : n \in 0..MaxEchoNumber}]
    \cup {[EmptyDict EXCEPT !.type = "array"]}

\* bids.py:222-226 on one (imgname, json_data)
classify_probe(fname, json_data) ==
    /\ probe = NoProbe
    /\ probe' = [imgname |-> fname, json_data |-> json_data,
                 result |-> classify(fname, json_data), echonum |-> None]
    /\ UNCHANGED <<os_name, pc, remote, scan_files, imgfiles, staged, placed, prior,
                   participants, passed, bidsfiles, listing>>

\* get_echo_num on one (fname, json_data), json_data a dict as at its call sites
call_get_echo_num(fname, json_data) ==
    /\ probe = NoProbe
    /\ ~not_a_dict(json_data)
    /\ probe' = [imgname |-> fname, json_data |-> json_data,
                 result |-> [NoResult EXCEPT !.outcome = "get_echo_num"],
                 echonum |-> get_echo_num(fname, json_data)]
    /\ UNCHANGED <<os_name, pc, remote, scan_files, imgfiles, staged, placed, prior,
                   participants, passed, bidsfiles, listing>>

NextClassify ==
    \/ \E fname \in ProbeNames, json_data \in ProbeJson : classify_probe(fname, json_data)
    \/ \E fname \in ProbeNames, json_data \in ProbeJson : call_get_echo_num(fname, json_data)

SpecClassify == Init /\ [][NextClassify]_vars

----------------------------------------------------------------------------
(* The participants list alone: scans of the subjects of one project are     *)
(* downloaded into one BIDS directory, in any order and any number of times. *)

\* labels of the subjects; "S-1" and "S_1" give the same BIDS subject ID
SubjLabels ==
    {<<"S","_",Digits[n + 1]>> : n \in 1..MaxSubjects} \cup {<<"S","-",Digits[2]>>}

\* bids.py:178-190 for a scan of the subject labelled label
download_bids_ptlist(label) ==
    /\ pc = "idle"
    /\ participants' = update_ptlist(participants, bids_subject_of(label))
    /\ passed' = note_passed(passed, bids_subject_of(label))
    /\ bidsfiles' = check_dataset_description(bidsfiles)
    /\ UNCHANGED <<os_name, pc, remote, scan_files, imgfiles, staged, placed, prior,
                   probe, listing>>

NextPtlist == \E label \in SubjLabels : download_bids_ptlist(label)

SpecPtlist == Init /\ [][NextPtlist]_vars

----------------------------------------------------------------------------
(* Listing alone: do_list over the server for command lines drawn from       *)
(* bounded sets, with the default action and with download_obj.              *)

ProjectArgs == {None, Some(<<"b","*">>)}

SubjectArgs == {None, Some(skip), Some(<<"s","_","0","1">>)}

ExperimentArgs == {None, Some(skip), Some(<<"x","e",".">>)}

ScanArgs == {None, Some(skip), Some(<<"2">>)}

AssessorArgs == {None, Some(skip), Some(<<"q","*">>)}

ListArgs ==
    [project : ProjectArgs, subject : SubjectArgs, experiment : ExperimentArgs,
     scan : ScanArgs, assessor : AssessorArgs, match_type : {"glob", "re"}]

ListActions == {"print_obj", "download_obj"}

\* main.py:241-245: do_list is entered: main.py:99 with print_obj, main.py:81
\* with download_obj
do_list(args, action) ==
    /\ listing = NoListing
    /\ listing' = advance([pc |-> "run", action |-> action, args |-> args,
                           todo |-> Server, out |-> <<>>])
    /\ UNCHANGED bids_vars

\* main.py:246-250
do_list_projects ==
    /\ listing.pc = "run"
    /\ Head(listing.todo).kind = "project"
    /\ listing' = list_step(listing, <<"p","r","o","j","e","c","t">>, listing.args.project)
    /\ UNCHANGED bids_vars

\* main.py:252-258
do_list_subjects ==
    /\ listing.pc = "run"
    /\ Head(listing.todo).kind = "subject"
    /\ listing' = list_step(listing, <<"s","u","b","j","e","c","t">>, listing.args.subject)
    /\ UNCHANGED bids_vars

\* main.py:260-267
do_list_experiments ==
    /\ listing.pc = "run"
    /\ Head(listing.todo).kind = "experiment"
    /\ listing' = list_step(listing, <<"s","e","s","s","i","o","n">>,
                            listing.args.experiment)
    /\ UNCHANGED bids_vars

\* main.py:269-274
do_list_scans ==
    /\ listing.pc = "run"
    /\ Head(listing.todo).kind = "scan"
    /\ listing' = list_step(listing, <<"s","c","a","n">>, listing.args.scan)
    /\ UNCHANGED bids_vars

\* main.py:276-281
do_list_assessors ==
    /\ listing.pc = "run"
    /\ Head(listing.todo).kind = "assessor"
    /\ listing' = list_step(listing, <<"a","s","s","e","s","s","o","r">>,
                            listing.args.assessor)
    /\ UNCHANGED bids_vars

NextList ==
    \/ \E args \in ListArgs, action \in ListActions : do_list(args, action)
    \/ do_list_projects
    \/ do_list_subjects
    \/ do_list_experiments
    \/ do_list_scans
    \/ do_list_assessors

SpecList == Init /\ [][NextList]_vars

----------------------------------------------------------------------------
(* Properties of the matcher loop and of get_echo_num (SpecClassify)         *)

anat_token(desc) ==
    contains(desc, tok_t1) \/ contains(desc, tok_t2star) \/ contains(desc, tok_t2)

no_token(desc) ==
    /\ ~anat_token(desc)
    /\ ~contains(desc, tok_fmri)
    /\ ~contains(desc, tok_diff)
    /\ ~contains(desc, tok_swi)

\* the matcher loop ran to its end on the probe
classified == probe.result.outcome \in {"match", "unmatched"}

\* C5: an acquisition whose description holds an anatomical token and the
\* functional token is classified by the anatomical rule (folder anat); the
\* order anat, func, dwi, swi is first-match-wins.
C5_AnatomicalWins ==
    (classified /\ anat_token(desc_of(probe.json_data))
                /\ contains(desc_of(probe.json_data), tok_fmri))
    => /\ probe.result.outcome = "match"
       /\ probe.result.bids_match[1].folder = "anat"

\* C6: a description containing t1 gives folder anat and suffix T1w (t2star gives
\* T2starw, otherwise t2 gives T2w), with acq=norm when the image types hold NORM.
C6_AnatomicalSuffix ==
    LET desc == desc_of(probe.json_data)
        types == get(probe.json_data, "ImageType", <<>>)
        norm == \E i \in 1..Len(types) : upper(types[i]) = <<"N","O","R","M">>
    IN  (classified /\ anat_token(desc))
        => /\ probe.result.outcome = "match"
           /\ probe.result.bids_match[1].folder = "anat"
           /\ probe.result.bids_match[1].suffix =
                 (IF contains(desc, tok_t1) THEN "T1w"
                  ELSE IF contains(desc, tok_t2star) THEN "T2starw" ELSE "T2w")
           /\ norm => \E i \in 1..Len(probe.result.bids_match[1].attrs) :
                         probe.result.bids_match[1].attrs[i] = Word("acq", "norm")

\* the places where s ends in tok followed by one or more digits and nothing else
trailing(s, tok) ==
    {i \in 1..Len(s) : /\ At(s, i, tok)
                       /\ i + Len(tok) <= Len(s)
                       /\ \A j \in (i + Len(tok))..Len(s) : IsDigit(s[j])}

trailing_num(s, tok) ==
    int(SubSeq(s, (CHOOSE i \in trailing(s, tok) : TRUE) + Len(tok), Len(s)))

\* C8: get_echo_num returns the sidecar's EchoNumber whenever it is present; else
\* N when the lower-cased filename ends in _echo<N> or _e<N>; else nothing.
C8_EchoNumber ==
    LET s == lower(probe.imgname)
    IN  probe.result.outcome = "get_echo_num"
        => probe.echonum =
             (IF probe.json_data.EchoNumber # None THEN probe.json_data.EchoNumber
              ELSE IF trailing(s, echo_res[1]) # {} THEN Some(trailing_num(s, echo_res[1]))
              ELSE IF trailing(s, echo_res[2]) # {} THEN Some(trailing_num(s, echo_res[2]))
              ELSE None)

----------------------------------------------------------------------------
(* Properties of download_bids (Spec)                                        *)

\* the acquisitions the loop of bids.py:210 has visited
visited(a) == a.stem \notin remote /\ a.stem \notin imgfiles

\* the metadata the matchers got for a
seen_json(a) ==
    IF ext_json \in a.exts /\ a.json.type # "invalid" THEN a.json ELSE EmptyDict

\* a was matched, and its placement is not the one an exception ended
was_placed(a) ==
    /\ visited(a)
    /\ classify(a.stem, seen_json(a)).outcome = "match"
    /\ ~(pc = "raised" /\ probe.imgname = a.stem)

\* the destination of a classification m with run index n (0: no run attribute)
run_dest(m, n, ext) ==
    dest_fname(m.folder, IF n = 0 THEN m.attrs ELSE set_attr(m.attrs, Num("run", n)),
               m.suffix, ext)

RunIndices == 0..(Cardinality(Catalogue) + 1)

\* a step of the loop of bids.py:210
rename_step == pc = "rename" /\ imgfiles' # imgfiles

\* C1: every acquisition that was placed still has a destination file of its own:
\* no placement and no retroactive run-1 rename overwrites or removes the file of
\* another acquisition.
C1_DistinctDestinations ==
    \A a \in Catalogue :
        was_placed(a) => \E p \in DOMAIN placed : placed[p] \in labels({a})

\* the loop step on an acquisition B whose run-less candidate name is held by
\* the file of an acquisition A
C2_step ==
    LET m == probe'.result.bids_match[1]
        cand == run_dest(m, 0, EXTS[1])
        r1 == run_dest(m, 1, EXTS[1])
        r2 == run_dest(m, 2, EXTS[1])
    IN  (rename_step /\ probe'.result.outcome = "match" /\ cand \in DOMAIN placed)
        => /\ r1 \in DOMAIN placed' /\ placed'[r1] = placed[cand]
           /\ r2 \in DOMAIN placed'
           /\ placed'[r2] \in {probe'.imgname \o EXTS[i] : i \in 1..Len(EXTS)}
           /\ cand \notin DOMAIN placed'
           /\ \A p \in DOMAIN placed \ {cand} :
                 p \in DOMAIN placed' /\ placed'[p] = placed[p]

\* C2: when B's run-less candidate name is held by A, after B is processed A's
\* file is at the run-1 name, B is at the run-2 name, the run-less name is free
\* and every other placed file is where it was.
C2_RunOneRunTwo == [][C2_step]_vars

\* the loop step on a third acquisition of a name whose run-1 and run-2 are taken
C3_step ==
    LET m == probe'.result.bids_match[1]
        taken == {n \in RunIndices : run_dest(m, n, EXTS[1]) \in DOMAIN placed}
        r1 == run_dest(m, 1, EXTS[1])
        r2 == run_dest(m, 2, EXTS[1])
        r3 == run_dest(m, 3, EXTS[1])
    IN  (rename_step /\ probe'.result.outcome = "match" /\ taken = {1, 2})
        => /\ r3 \in DOMAIN placed'
           /\ placed'[r3] \in {probe'.imgname \o EXTS[i] : i \in 1..Len(EXTS)}
           /\ r1 \in DOMAIN placed' /\ placed'[r1] = placed[r1]
           /\ r2 \in DOMAIN placed' /\ placed'[r2] = placed[r2]

\* C3: when run-1 and run-2 of a name are taken (and nothing else of that name),
\* a third acquisition with the same run-less candidate is placed at run-3, and
\* the run-1 and run-2 files stay as they are.
C3_ThirdIsRunThree == [][C3_step]_vars

\* C4: a placed acquisition has, for one destination base, exactly the
\* extensions it was downloaded with, each holding the file of that extension.
C4_ExtensionsPreserved ==
    \A a \in Catalogue :
        was_placed(a) =>
            \E n \in RunIndices :
                \A i \in 1..Len(EXTS) :
                    LET p == run_dest(classify(a.stem, seen_json(a)).bids_match[1],
                                      n, EXTS[i])
                    IN  (EXTS[i] \in a.exts)
                        <=> (p \in DOMAIN placed /\ placed[p] = a.stem \o EXTS[i])

\* the loop step on an acquisition whose metadata is a mapping and whose
\* description holds no modality token
C7_step ==
    LET own == {probe'.imgname \o EXTS[i] : i \in 1..Len(EXTS)}
    IN  (rename_step /\ probe'.json_data.type = "object"
                     /\ no_token(desc_of(probe'.json_data)))
        => /\ placed' = placed
           /\ staged' = staged \ own
           /\ \A p \in DOMAIN placed' : placed'[p] \notin own
           /\ imgfiles' = imgfiles \ {probe'.imgname}
           /\ pc' = IF imgfiles' = {} THEN "idle" ELSE "rename"

\* C7: the loop step on an acquisition whose description holds no modality
\* token removes its staged files, puts none of them in a folder, leaves every
\* other file alone and goes on with the acquisitions that remain.
C7_UnmatchedRemoved == [][C7_step]_vars

\* C7 happens: an unmatched acquisition with a description has just been removed
\* while files of earlier acquisitions are placed and a later one is still staged
C7_Witness ==
    /\ pc = "rename"
    /\ probe.result.outcome = "unmatched"
    /\ probe.json_data.SeriesDescription # None
    /\ probe.imgname \notin imgfiles
    /\ \A i \in 1..Len(EXTS) : (probe.imgname \o EXTS[i]) \notin staged
    /\ DOMAIN placed # {}
    /\ staged # {}

\* the sidecar of a is absent, unreadable, not a mapping, or lacks the description
bad_sidecar(a) ==
    \/ ext_json \notin a.exts
    \/ a.json.type # "object"
    \/ a.json.SeriesDescription = None

\* C9: an acquisition whose sidecar is absent, unreadable or malformed, or lacks
\* the description, never makes download_bids raise.
C9_NeverAborts ==
    \A a \in Catalogue :
        (visited(a) /\ probe.imgname = a.stem /\ bad_sidecar(a)) => pc # "raised"

\* lexicographic order of character tuples, by ASCII code
Ascii == <<"$", ".">> \o Digits \o UpperChars \o <<"_">> \o LowerChars

code(c) == CHOOSE i \in 1..Len(Ascii) : Ascii[i] = c

RECURSIVE lex_less(_, _)
lex_less(s, t) ==
    IF Len(t) = 0 THEN FALSE
    ELSE IF Len(s) = 0 THEN TRUE
    ELSE IF s[1] # t[1] THEN code(s[1]) < code(t[1])
    ELSE lex_less(Tail(s), Tail(t))

RECURSIVE sorted(_)
sorted(S) ==
    IF S = {} THEN <<>>
    ELSE LET least == CHOOSE s \in S : \A t \in S \ {s} : lex_less(s, t)
         IN  <<least>> \o sorted(S \ {least})

\* the loop of bids.py:210 run over the sequence names
RECURSIVE in_order(_, _)
in_order(fs, names) ==
    IF Len(names) = 0 \/ fs.raised THEN fs
    ELSE in_order(rename_files(fs, names[1],
                               classify(names[1], load_json(fs.staged, names[1]))),
                  Tail(names))

\* C10: the outcome of a download_bids call is the one of the enumeration in a
\* fixed order (by basename): equal inputs give equal run indices and names.
C10_Deterministic ==
    (pc = "idle" /\ scan_files # {})
    => placed = in_order([staged |-> scan_files, placed |-> prior, raised |-> FALSE],
                         sorted({strip_exts(f, 1) : f \in scan_files})).placed

----------------------------------------------------------------------------
(* Properties of update_ptlist (SpecPtlist)                                  *)

\* text.split("\n"): the lines of a text without their line ends
RECURSIVE split_lines(_)
split_lines(text) ==
    IF \E i \in 1..Len(text) : text[i] = "\n"
    THEN LET n == CHOOSE i \in 1..Len(text) :
                      text[i] = "\n" /\ \A j \in 1..(i - 1) : text[j] # "\n"
         IN  <<SubSeq(text, 1, n - 1)>> \o split_lines(SubSeq(text, n + 1, Len(text)))
    ELSE <<text>>

\* participants.tsv is the header line, then one line for each ID passed, in
\* the order the IDs were first passed, every line ended by "\n"
listed(file, ids) ==
    IF ids = <<>> THEN ~file.exists
    ELSE /\ file.exists
         /\ split_lines(file.text) = <<participant_id>> \o ids \o << <<>> >>

\* C11: after any sequence of update_ptlist calls on one BIDS directory,
\* participants.tsv holds the header participant_id as its first line and then
\* every subject ID that was passed, exactly once, in order of first
\* appearance; a call with an ID that is already listed leaves the file as it is.
C11_step ==
    /\ listed(participants', passed')
    /\ passed' = passed => participants' = participants

C11_ParticipantsList == [][C11_step]_vars

\* three IDs passed, first S2, then S1, then S3: not the order of the labels
C11_Witness ==
    /\ Len(passed) = 3
    /\ passed[1] = bids_subject_of(<<"S","_","2">>)
    /\ passed[2] = bids_subject_of(<<"S","-","1">>)
    /\ passed[3] = bids_subject_of(<<"S","_","3">>)
    /\ listed(participants, passed)

----------------------------------------------------------------------------
(* Properties of the listing (SpecList)                                      *)

RECURSIVE concat(_)
concat(ss) == IF Len(ss) = 0 THEN <<>> ELSE ss[1] \o concat(Tail(ss))

\* the argument of the command line that selects objects of a kind
arg_of(args, kind) ==
    CASE kind = "project" -> args.project
      [] kind = "subject" -> args.subject
      [] kind = "experiment" -> args.experiment
      [] kind = "scan" -> args.scan
      [] kind = "assessor" -> args.assessor

\* the matching objects among objs, each followed by the matching objects
\* below it: parents before children, in the order of the server
RECURSIVE matching(_, _)
matching(objs, args) ==
    concat([i \in 1..Len(objs) |->
              IF matches(objs[i], arg_of(args, objs[i].kind), args)
              THEN <<[kind |-> objs[i].kind, label |-> objs[i].label]>>
                   \o matching(objs[i].children, args)
              ELSE <<>>])

\* what the action was called on and returned from, so far
reported == [i \in 1..Len(listing.out) |->
               [kind |-> listing.out[i].kind, label |-> listing.out[i].label]]

\* C12: with the default action print_obj, every object-type string that
\* do_list passes is one print_obj accepts, so the listing never raises, and
\* when it has ended it has reported every matching project, subject,
\* experiment, scan and assessor, parents before children.
C12_ListingCompletes ==
    listing.action = "print_obj" =>
        /\ listing.pc # "raised"
        /\ \A i \in 1..Len(listing.out) : has_prefix(lower(listing.out[i].obj_type))
        /\ listing.pc = "done" => reported = matching(Server, listing.args)

====
